---- MODULE Spec2Model ----
(***************************************************************************)
(* The two notebook pipelines of the repository as one state machine.      *)
(*                                                                         *)
(*   legal : src/unnamed/part_000  (RAG over legal documents; the index is *)
(*           built and persisted to storage_legal, or loaded from it)      *)
(*   astra : src/examples/parse/demo_astradb.ipynb  (index kept in an      *)
(*           AstraDB vector store, query engine with similarity_top_k=15)  *)
(*                                                                         *)
(* A state is the notebook kernel's globals (files, documents, index,      *)
(* query_engine), the process environment (API keys), the part of the      *)
(* filesystem the cells read and write, and the cell the run has reached.  *)
(* The notebooks contain no try/except: an exception raised inside a cell  *)
(* ends the run (pc = "failed"); the statements of the cell that ran       *)
(* before it keep their effect, the ones after it do not run.              *)
(* The collaborators the cells call (LlamaParse, VectorStoreIndex,         *)
(* StorageContext, the query engine) are not part of the sources; they are *)
(* modelled by the interfaces section 6 of the specification gives them.   *)
(***************************************************************************)
EXTENDS Integers, Sequences, FiniteSets, TLC

VARIABLES
    pipeline,    \* which notebook this session runs: "legal" or "astra"
    pc,          \* the cell the run has reached
    env,         \* the API keys the credential cell configured
    dataDir,     \* listing of DATA_DIR: a sequence of entries [name, kind]
    files,       \* global `files`
    documents,   \* global `documents`
    parseErrors, \* the per-file errors the parser reported (paths)
    fs,          \* the persistence directories, by normalised path
    index,       \* global `index`
    engine,      \* global `query_engine`
    slots,       \* the queries issued against the engine
    err,         \* the exception that ended the run, if any
    net,         \* which services a network call has been attempted to
    session,     \* number of the kernel session (1 = first run)
    call,        \* what the latest run of the build-or-load cell did
    prev,        \* the index returned by the build-or-load call before it
    dl           \* the download step: the local file, the response, the output

vars == <<pipeline, pc, env, dataDir, files, documents, parseErrors, fs,
          index, engine, slots, err, net, session, call, prev, dl>>

----------------------------------------------------------------------------
(* Bounds of the model.                                                    *)

MaxEntries == 2      \* entries in the data directory
MaxSessions == 2     \* kernel sessions (runs of the notebook) in a behaviour
MaxQueries == 2      \* queries in flight against one query engine
MaxNodes == 16       \* fragments the node parser cuts the AstraDB document into

----------------------------------------------------------------------------
(* Program constants.                                                      *)

DATA_DIR == "data"
ExtraInfo == [name |-> "US legal documents provided by the Library of Congress."]
EmbedModelName == "text-embedding-3-large"
DefaultEmbedModelName == "text-embedding-ada-002"
CheckPath == <<"storage_legal">>
PersistPath == <<".", "storage_legal">>
AstraFilePath == <<".", "attention.pdf">>
AstraSimilarityTopK == 15
DefaultSimilarityTopK == 2
StoreFiles == 3

KeyInputs == {"", "sk"}
Names == 1..MaxEntries
Kinds == {"file", "dir"}

----------------------------------------------------------------------------
(* Paths.  A path is the sequence of its components; "./x" and "x" name    *)
(* the same directory entry of the working directory.                      *)

join(dir, f) == <<dir, f>>

Normalize(p) == SelectSeq(p, LAMBDA c : c # ".")

PersistDirs == {<<"storage_legal">>, <<"storage">>}

NoSnapshot == [exists |-> FALSE, written |-> 0, nodes |-> <<>>, vecs |-> <<>>]

exists(f, p) == f[Normalize(p)].exists

----------------------------------------------------------------------------
(* Credentials.  A collaborator call checks its API key before it uses the *)
(* network and raises a configuration error when the key is not set.       *)

KeyConfiguredUnchecked(k) == TRUE

KeyConfigured(k) == k # ""

----------------------------------------------------------------------------
(* File discovery.                                                         *)

RECURSIVE get_data_files_from(_, _, _)
get_data_files_from(listing, data_dir, i) ==
    IF i > Len(listing) THEN <<>>
    ELSE LET fname == join(data_dir, listing[i].name)
             rest  == get_data_files_from(listing, data_dir, i + 1)
         IN  IF listing[i].kind = "file" THEN <<fname>> \o rest ELSE rest

get_data_files_first(listing, data_dir) ==
    LET all == get_data_files_from(listing, data_dir, 1)
    IN  IF all = <<>> THEN <<>> ELSE <<all[1]>>

get_data_files_unfiltered(listing, data_dir) ==
    [i \in 1..Len(listing) |-> join(data_dir, listing[i].name)]

get_data_files(listing, data_dir) == get_data_files_from(listing, data_dir, 1)

----------------------------------------------------------------------------
(* The parsing collaborator.  load_data parses every file of the batch; a  *)
(* file that fails is reported with its path and contributes no Document,  *)
(* every other file yields one Document carrying extra_info.  The body of  *)
(* a Document is the content of its file, which the model identifies with  *)
(* the file's name (every file has content unique to it).                  *)

Document(path, extra_info) ==
    [id_ |-> path, text |-> path[Len(path)], metadata |-> extra_info]

RECURSIVE load_data_from(_, _, _, _)
load_data_from(fs_, extra_info, ok, i) ==
    IF i > Len(fs_) THEN <<>>
    ELSE LET rest == load_data_from(fs_, extra_info, ok, i + 1)
         IN  IF i \in ok THEN <<Document(fs_[i], extra_info)>> \o rest ELSE rest

load_data_abort(fs_, extra_info, ok) ==
    IF \E i \in 1..Len(fs_) : i \notin ok THEN <<>>
    ELSE load_data_from(fs_, extra_info, ok, 1)

load_data(fs_, extra_info, ok) == load_data_from(fs_, extra_info, ok, 1)

load_data_errors(fs_, ok) == {fs_[i] : i \in (1..Len(fs_)) \ ok}

----------------------------------------------------------------------------
(* The indexing collaborators.  An index holds its fragments (one per      *)
(* Document in the legal pipeline), the vector the embedder computed for   *)
(* each of them, and the embedding model it embeds a question with.        *)
(* Embed gives the two models different geometries: vectors of one model   *)
(* are not comparable with a question embedded by the other.               *)

Abs(x) == IF x < 0 THEN 0 - x ELSE x

Min(a, b) == IF a < b THEN a ELSE b

Embed(model, t) == IF model = EmbedModelName THEN t ELSE 0 - t

NoIndex == [defined |-> FALSE, nodes |-> <<>>, vecs |-> <<>>, embed |-> ""]

Texts(docs) == [i \in 1..Len(docs) |-> docs[i].text]

VectorStoreIndex(texts, embed_model) ==
    [defined |-> TRUE,
     nodes   |-> texts,
     vecs    |-> [i \in 1..Len(texts) |-> Embed(embed_model, texts[i])],
     embed   |-> embed_model]

(* persist writes the store files one after the other: the document store  *)
(* (the fragments), the index store, the vector store (the vectors).  k is *)
(* the number of files written when it stopped; k = StoreFiles is a        *)
(* completed persist.  The embedding model is not part of the snapshot.    *)
persist(ix, k) ==
    [exists  |-> TRUE,
     written |-> k,
     nodes   |-> IF k >= 1 THEN ix.nodes ELSE <<>>,
     vecs    |-> IF k >= StoreFiles THEN ix.vecs ELSE <<>>]

Loadable(snap) == snap.exists /\ snap.written = StoreFiles

load_index_from_storage(snap, settings_embed) ==
    [defined |-> TRUE, nodes |-> snap.nodes, vecs |-> snap.vecs,
     embed   |-> settings_embed]

SettingsEmbedModelUnset == DefaultEmbedModelName

SettingsEmbedModel == EmbedModelName

----------------------------------------------------------------------------
(* Retrieval and generation.  Fragments are ranked by the distance of      *)
(* their vector to the embedded question, nearest first, earlier fragment  *)
(* first among equals; the engine returns the first top_k of them.         *)

Dist(ix, q, i) == Abs(Embed(ix.embed, q) - ix.vecs[i])

Before(ix, q, i, j) ==
    \/ Dist(ix, q, i) < Dist(ix, q, j)
    \/ Dist(ix, q, i) = Dist(ix, q, j) /\ i < j

Nearest(ix, q, rem) ==
    CHOOSE i \in rem : \A j \in rem \ {i} : Before(ix, q, i, j)

RECURSIVE Ranked(_, _, _, _)
Ranked(ix, q, rem, k) ==
    IF k = 0 \/ rem = {} THEN <<>>
    ELSE LET i == Nearest(ix, q, rem)
         IN  <<i>> \o Ranked(ix, q, rem \ {i}, k - 1)

Retrieve(ix, q, k) ==
    LET order == Ranked(ix, q, 1..Len(ix.nodes), k)
    IN  [r \in 1..Len(order) |->
            [text |-> ix.nodes[order[r]], score |-> 0 - Dist(ix, q, order[r])]]

Synthesize(q, source_nodes) ==
    [response     |-> <<q>> \o [r \in 1..Len(source_nodes) |-> source_nodes[r].text],
     source_nodes |-> source_nodes]

NoResponse == [response |-> <<>>, source_nodes |-> <<>>]

NoEngine == [defined |-> FALSE, top_k |-> 0]

as_query_engine(k) == [defined |-> TRUE, top_k |-> k]

Ask(ix, eng, q) == Synthesize(q, Retrieve(ix, q, eng.top_k))

----------------------------------------------------------------------------
(* Initial state: a fresh kernel in a working directory that holds the     *)
(* data directory and no persisted index.                                  *)

Entry(n, k) == [name |-> n, kind |-> k]

(* The listings of a directory of at most MaxEntries entries; entry names  *)
(* are distinct, the i-th entry listed is named i.                         *)
Listings ==
    UNION {[1..n -> Kinds] : n \in 0..MaxEntries}

AsListing(kinds) == [i \in 1..Len(kinds) |-> Entry(i, kinds[i])]

NoErr == [kind |-> "", at |-> ""]

NoCall ==
    [ran |-> FALSE, count |-> 0, existed |-> FALSE, branch |-> "",
     returned |-> FALSE, before |-> NoSnapshot, docs |-> <<>>, result |-> NoIndex,
     constructed |-> FALSE, embedded |-> FALSE]

NoPrev == [defined |-> FALSE, ix |-> NoIndex]

IdleSlot == [stage |-> "idle", q |-> 0, source_nodes |-> <<>>, response |-> NoResponse]

FreshKernel ==
    /\ pc = "creds"
    /\ env = [OPENAI_API_KEY |-> "", LLAMA_CLOUD_API_KEY |-> ""]
    /\ files = <<>>
    /\ documents = <<>>
    /\ parseErrors = {}
    /\ index = NoIndex
    /\ engine = NoEngine
    /\ slots = [s \in 1..MaxQueries |-> IdleSlot]
    /\ err = NoErr
    /\ net = [parse |-> FALSE, openai |-> FALSE]

(* The local file ./attention.pdf is absent or left by an earlier run; the *)
(* legal notebook has no download step.                                    *)
NoDownload(f) == [file |-> f, status |-> 0, body |-> "", out |-> ""]

InitialLocalFiles ==
    IF pipeline = "legal" THEN {"absent"} ELSE {"absent", "old.pdf"}

Init ==
    /\ pipeline \in {"legal", "astra"}
    /\ \E kinds \in Listings :
          dataDir = IF pipeline = "legal" THEN AsListing(kinds) ELSE <<>>
    /\ fs = [d \in PersistDirs |-> NoSnapshot]
    /\ session = 1
    /\ call = NoCall
    /\ prev = NoPrev
    /\ dl \in {NoDownload(f) : f \in InitialLocalFiles}
    /\ FreshKernel

RaiseSwallowed(kind, at) ==
    /\ err' = [kind |-> kind, at |-> at]
    /\ pc' = IF at \in {"embed", "persist", "load"} THEN "query" ELSE "failed"

Raise(kind, at) ==
    /\ err' = [kind |-> kind, at |-> at]
    /\ pc' = "failed"

----------------------------------------------------------------------------
(* Legal pipeline, cell by cell.                                           *)

(* Credential cell: both keys are assigned; the literal in the notebook is *)
(* a placeholder the user replaces, "" stands for a key left unconfigured. *)
CredentialsCell ==
    /\ UNCHANGED dl
    /\ pipeline = "legal" /\ pc = "creds"
    /\ \E k1 \in KeyInputs, k2 \in KeyInputs :
          env' = [OPENAI_API_KEY |-> k1, LLAMA_CLOUD_API_KEY |-> k2]
    /\ pc' = "setup"
    /\ UNCHANGED <<pipeline, dataDir, files, documents, parseErrors, fs, index,
                   engine, slots, err, net, session, call, prev>>

(* Parser set-up cell: files = get_data_files().                           *)
GetDataFilesCell ==
    /\ UNCHANGED dl
    /\ pipeline = "legal" /\ pc = "setup"
    /\ files' = get_data_files(dataDir, DATA_DIR)
    /\ pc' = "parse"
    /\ UNCHANGED <<pipeline, env, dataDir, documents, parseErrors, fs, index,
                   engine, slots, err, net, session, call, prev>>

(* documents = parser.load_data(files, extra_info=...).  ok is the set of  *)
(* positions of the batch whose parse succeeds.                            *)
LoadDataCell ==
    /\ UNCHANGED dl
    /\ pipeline = "legal" /\ pc = "parse"
    /\ IF ~KeyConfigured(env.LLAMA_CLOUD_API_KEY)
       THEN /\ Raise("ConfigError", "parse")
            /\ UNCHANGED <<documents, parseErrors, net>>
       ELSE \E ok \in SUBSET (1..Len(files)) :
               /\ documents' = load_data(files, ExtraInfo, ok)
               /\ parseErrors' = load_data_errors(files, ok)
               /\ net' = [net EXCEPT !.parse = (files # <<>>)]
               /\ pc' = "index"
               /\ err' = err
    /\ UNCHANGED <<pipeline, env, dataDir, files, fs, index, engine, slots,
                   session, call, prev>>

(* The build-or-load cell.                                                 *)
TakeBuildBranchIfStale(f, docs) ==
    \/ ~exists(f, CheckPath)
    \/ f[Normalize(CheckPath)].nodes # Texts(docs)

TakeBuildBranch(f, docs) == ~exists(f, CheckPath)

Started(docs) ==
    [ran |-> TRUE, count |-> call.count + 1, existed |-> exists(fs, CheckPath),
     branch |-> "", returned |-> FALSE, before |-> fs[Normalize(CheckPath)],
     docs |-> docs, result |-> NoIndex, constructed |-> FALSE,
     embedded |-> FALSE]

PersistTargetElsewhere == <<".", "storage">>

PersistTarget == PersistPath

BuildBranch ==
    LET c == [Started(documents) EXCEPT !.branch = "build",
                                        !.constructed = TRUE,
                                        !.embedded = (documents # <<>>)]
    IN
    IF documents # <<>> /\ ~KeyConfigured(env.OPENAI_API_KEY)
    THEN /\ Raise("ConfigError", "embed")
         /\ call' = c
         /\ UNCHANGED <<fs, index, engine, net, prev>>
    ELSE
      \/ /\ documents # <<>>
         /\ Raise("CollaboratorError", "embed")
         /\ net' = [net EXCEPT !.openai = TRUE]
         /\ call' = c
         /\ UNCHANGED <<fs, index, engine, prev>>
      \/ \E k \in 0..StoreFiles :
            LET ix == VectorStoreIndex(Texts(documents), EmbedModelName)
            IN  /\ index' = ix
                /\ net' = [net EXCEPT !.openai = (documents # <<>>)]
                /\ fs' = [fs EXCEPT ![Normalize(PersistTarget)] = persist(ix, k)]
                /\ IF k = StoreFiles
                   THEN /\ engine' = as_query_engine(DefaultSimilarityTopK)
                        /\ pc' = "query"
                        /\ err' = err
                        /\ call' = [c EXCEPT !.returned = TRUE, !.result = ix]
                        /\ prev' = [defined |-> call.returned, ix |-> call.result]
                   ELSE /\ Raise("PersistError", "persist")
                        /\ call' = c
                        /\ UNCHANGED <<engine, prev>>

LoadBranch ==
    LET c    == [Started(documents) EXCEPT !.branch = "load"]
        snap == fs[Normalize(PersistPath)]
    IN
    IF Loadable(snap)
    THEN LET ix == load_index_from_storage(snap, SettingsEmbedModel)
         IN  /\ index' = ix
             /\ engine' = as_query_engine(DefaultSimilarityTopK)
             /\ pc' = "query"
             /\ call' = [c EXCEPT !.returned = TRUE, !.result = ix]
             /\ prev' = [defined |-> call.returned, ix |-> call.result]
             /\ UNCHANGED <<fs, err, net>>
    ELSE /\ Raise("LibraryError", "load")
         /\ call' = c
         /\ UNCHANGED <<fs, index, engine, net, prev>>

BuildOrLoadCell ==
    /\ UNCHANGED dl
    /\ pipeline = "legal" /\ pc = "index"
    /\ IF TakeBuildBranch(fs, documents) THEN BuildBranch ELSE LoadBranch
    /\ UNCHANGED <<pipeline, env, dataDir, files, documents, parseErrors, slots,
                   session>>

----------------------------------------------------------------------------
(* AstraDB pipeline, cell by cell.                                         *)

(* Configuration cell: the keys are whatever the user types at the prompts *)
(* ("" when the prompt is left empty).                                     *)
AstraCredentialsCell ==
    /\ UNCHANGED dl
    /\ pipeline = "astra" /\ pc = "creds"
    /\ \E llama_cloud_api_key \in KeyInputs, openai_api_key \in KeyInputs :
          env' = [OPENAI_API_KEY |-> openai_api_key,
                  LLAMA_CLOUD_API_KEY |-> llama_cloud_api_key]
    /\ pc' = "download"
    /\ UNCHANGED <<pipeline, dataDir, files, documents, parseErrors, fs, index,
                   engine, slots, err, net, session, call, prev>>

(* Download cell: response = requests.get(url); the body is written to the *)
(* local file when the status is 200 and "Download complete." is printed,  *)
(* else the error message is printed.  requests.get may raise (no          *)
(* connection), and the write may stop after open() truncated the file.    *)
HTTP_OK == 200

Statuses == {HTTP_OK, 404, 503}

Bodies == {"paper.pdf", "error.html"}

DownloadWritesAlways(status_code) == TRUE

DownloadWrites(status_code) == status_code = HTTP_OK

AstraDownloadCell ==
    /\ pipeline = "astra" /\ pc = "download"
    /\ \/ /\ Raise("ConnectionError", "download")
          /\ UNCHANGED dl
       \/ \E status_code \in Statuses, content \in Bodies :
             LET got == [dl EXCEPT !.status = status_code, !.body = content]
             IN  IF DownloadWrites(status_code)
                 THEN \/ /\ dl' = [got EXCEPT !.file = content,
                                              !.out = "Download complete."]
                         /\ pc' = "parse"
                         /\ err' = err
                      \/ /\ dl' = [got EXCEPT !.file = "truncated"]
                         /\ Raise("OSError", "download")
                 ELSE /\ dl' = [got EXCEPT !.out = "Error downloading the file."]
                      /\ pc' = "parse"
                      /\ err' = err
    /\ UNCHANGED <<pipeline, env, dataDir, files, documents, parseErrors, fs,
                   index, engine, slots, net, session, call, prev>>

(* documents = LlamaParse(result_type="text").load_data(file_path); a file *)
(* that does not exist cannot be parsed.                                   *)
AstraLoadDataCell ==
    /\ UNCHANGED dl
    /\ pipeline = "astra" /\ pc = "parse"
    /\ IF ~KeyConfigured(env.LLAMA_CLOUD_API_KEY)
       THEN /\ Raise("ConfigError", "parse")
            /\ UNCHANGED <<documents, parseErrors, net>>
       ELSE \E ok \in SUBSET {1} :
               /\ dl.file = "absent" => ok = {}
               /\ documents' = load_data(<<AstraFilePath>>, ExtraInfo, ok)
               /\ parseErrors' = load_data_errors(<<AstraFilePath>>, ok)
               /\ net' = [net EXCEPT !.parse = TRUE]
               /\ pc' = "index"
               /\ err' = err
    /\ UNCHANGED <<pipeline, env, dataDir, files, fs, index, engine, slots,
                   session, call, prev>>

(* nodes = node_parser.get_nodes_from_documents(documents), then the index *)
(* over the AstraDB store.  n is the number of fragments the node parser   *)
(* cuts the document into; fragment i has content i.                       *)
AstraIndexCell ==
    /\ UNCHANGED dl
    /\ pipeline = "astra" /\ pc = "index"
    /\ \E n \in 0..MaxNodes :
          /\ (n = 0) <=> (documents = <<>>)
          /\ IF n > 0 /\ ~KeyConfigured(env.OPENAI_API_KEY)
             THEN /\ Raise("ConfigError", "embed")
                  /\ UNCHANGED <<index, net>>
             ELSE /\ index' = VectorStoreIndex([i \in 1..n |-> i],
                                               DefaultEmbedModelName)
                  /\ net' = [net EXCEPT !.openai = (n > 0)]
                  /\ pc' = "engine"
                  /\ err' = err
    /\ UNCHANGED <<pipeline, env, dataDir, files, documents, parseErrors, fs,
                   engine, slots, session, call, prev>>

AstraTopKUnlimited == MaxNodes + 1

AstraTopK == AstraSimilarityTopK

(* query_engine = index.as_query_engine(similarity_top_k=15)               *)
AstraQueryEngineCell ==
    /\ UNCHANGED dl
    /\ pipeline = "astra" /\ pc = "engine"
    /\ engine' = as_query_engine(AstraTopK)
    /\ pc' = "query"
    /\ UNCHANGED <<pipeline, env, dataDir, files, documents, parseErrors, fs,
                   index, slots, err, net, session, call, prev>>

----------------------------------------------------------------------------
(* Queries (both pipelines).  query_engine.query(q) embeds the question,   *)
(* retrieves the fragments, then generates the answer from them; queries   *)
(* issued against the same engine may interleave between the two steps.    *)
(* Queries are issued one after the other (slot s after slot s - 1) and    *)
(* complete in any order.                                                  *)

QueryTexts == Names

IndexAfterQueryInsert(ix, q) ==
    VectorStoreIndex(Append(ix.nodes, q), ix.embed)

IndexAfterQuery(ix, q) == ix

StartQuery(s, q) ==
    /\ UNCHANGED dl
    /\ pc = "query" /\ slots[s].stage = "idle"
    /\ \A t \in 1..(s - 1) : slots[t].stage # "idle"
    /\ IF ~KeyConfigured(env.OPENAI_API_KEY)
       THEN /\ Raise("ConfigError", "query")
            /\ UNCHANGED <<slots, net, index>>
       ELSE /\ slots' = [slots EXCEPT ![s] =
                           [stage |-> "retrieved", q |-> q,
                            source_nodes |-> Retrieve(index, q, engine.top_k),
                            response |-> NoResponse]]
            /\ index' = IndexAfterQuery(index, q)
            /\ net' = [net EXCEPT !.openai = TRUE]
            /\ UNCHANGED <<pc, err>>
    /\ UNCHANGED <<pipeline, env, dataDir, files, documents, parseErrors, fs,
                   engine, session, call, prev>>

FinishQuery(s) ==
    /\ UNCHANGED dl
    /\ pc = "query" /\ slots[s].stage = "retrieved"
    /\ slots' = [slots EXCEPT ![s] =
                   [slots[s] EXCEPT
                       !.stage = "done",
                       !.response = Synthesize(slots[s].q, slots[s].source_nodes)]]
    /\ UNCHANGED <<pipeline, pc, env, dataDir, files, documents, parseErrors,
                   fs, index, engine, err, net, session, call, prev>>

----------------------------------------------------------------------------
(* A new run of the legal notebook in a fresh kernel: the globals are      *)
(* gone, the filesystem stays, and the data directory may hold other       *)
(* documents than in the run before.  A run ends by failing or after its   *)
(* queries; the state a new run starts in does not depend on the queries   *)
(* of the run before, so it is taken from the state before them.           *)

Restart ==
    /\ UNCHANGED dl
    /\ pipeline = "legal" /\ pc \in {"query", "failed"}
    /\ \A s \in 1..MaxQueries : slots[s].stage = "idle"
    /\ session < MaxSessions
    /\ session' = session + 1
    /\ \E kinds \in Listings : dataDir' = AsListing(kinds)
    /\ pc' = "creds"
    /\ env' = [OPENAI_API_KEY |-> "", LLAMA_CLOUD_API_KEY |-> ""]
    /\ files' = <<>>
    /\ documents' = <<>>
    /\ parseErrors' = {}
    /\ index' = NoIndex
    /\ engine' = NoEngine
    /\ slots' = [s \in 1..MaxQueries |-> IdleSlot]
    /\ err' = NoErr
    /\ net' = [parse |-> FALSE, openai |-> FALSE]
    /\ call' = [call EXCEPT !.count = 0]
    /\ UNCHANGED <<pipeline, fs, prev>>

Next ==
    \/ CredentialsCell
    \/ GetDataFilesCell
    \/ LoadDataCell
    \/ BuildOrLoadCell
    \/ AstraCredentialsCell
    \/ AstraDownloadCell
    \/ AstraLoadDataCell
    \/ AstraIndexCell
    \/ AstraQueryEngineCell
    \/ \E s \in 1..MaxQueries, q \in QueryTexts : StartQuery(s, q)
    \/ \E s \in 1..MaxQueries : FinishQuery(s)
    \/ Restart

Spec == Init /\ [][Next]_vars

----------------------------------------------------------------------------
(* Properties of the build-or-load cell.                                   *)

Snapshot == fs[Normalize(CheckPath)]

FullRanking(ix, q) == Retrieve(ix, q, Len(ix.nodes))

(* C1: existence of the persistence path is the single switch.  A run of   *)
(* the cell that found the path existing took the load branch, left the    *)
(* snapshot as it found it and returned the persisted index, whatever the  *)
(* documents supplied; a run that built found the path absent.             *)
C1_ExistenceIsTheSwitch ==
    call.ran =>
        /\ call.existed =>
              /\ call.branch = "load"
              /\ Snapshot = call.before
              /\ call.returned =>
                    /\ call.result.nodes = call.before.nodes
                    /\ call.result.vecs = call.before.vecs
        /\ call.branch = "build" => ~call.existed
        /\ ~call.existed => call.branch = "build"

C1_Witness_LoadedStaleSnapshot ==
    /\ call.ran /\ call.existed /\ call.returned
    /\ call.docs # <<>>
    /\ call.result.nodes # Texts(call.docs)
    /\ pc = "query"

(* C2: a run of the cell that found the path absent and returned has built *)
(* the index from the documents with the embedder, and from then on the    *)
(* path holds the complete snapshot of that index.                         *)
C2_BuildPersistsCompleteSnapshot ==
    (call.ran /\ ~call.existed /\ call.returned) =>
        /\ call.branch = "build"
        /\ call.result = VectorStoreIndex(Texts(call.docs), EmbedModelName)
        /\ Loadable(Snapshot)
        /\ Snapshot.nodes = call.result.nodes
        /\ Snapshot.vecs = call.result.vecs

C2_Witness_BuiltAndPersisted ==
    /\ call.ran /\ ~call.existed /\ call.returned
    /\ Len(call.docs) >= 2
    /\ pc = "query"

(* C3 (the claim as stated): a run of the cell that finds the path holding *)
(* a partial snapshot fails with a "corrupt index" error.                  *)
C3_CorruptSnapshotRaisesCorruptIndex ==
    (call.ran /\ call.count > 0 /\ call.existed /\ ~Loadable(call.before)) =>
        /\ ~call.returned
        /\ pc = "failed"
        /\ err.kind = "CorruptIndexError"

C5_RoundTripTopFragment ==
    (call.ran /\ call.returned) =>
        \A i \in 1..Len(call.result.nodes) :
            LET t == call.result.nodes[i]
                r == Retrieve(call.result, t, DefaultSimilarityTopK)
            IN  /\ r # <<>>
                /\ r[1].text = t

C5_Witness_LoadedAfterPersist ==
    /\ call.ran /\ call.returned /\ call.branch = "load"
    /\ Len(call.result.nodes) >= 2
    /\ call.result.nodes = prev.ix.nodes
    /\ prev.defined

----------------------------------------------------------------------------
(* Properties of ingestion.                                                *)

DocumentsAssigned ==
    /\ pipeline = "legal"
    /\ \/ pc \in {"index", "query"}
       \/ pc = "failed" /\ err.at # "parse"

RegularFiles == {i \in 1..Len(dataDir) : dataDir[i].kind = "file"}

PathOf(i) == join(DATA_DIR, dataDir[i].name)

DocsOf(path) == {j \in 1..Len(documents) : documents[j].id_ = path}

(* C6 (the claim as stated): Ingest(D) returns exactly one Document per    *)
(* regular file directly inside D, each carrying the caller's metadata.    *)
C6_OneDocumentPerRegularFile ==
    DocumentsAssigned =>
        /\ Len(documents) = Cardinality(RegularFiles)
        /\ \A i \in RegularFiles : Cardinality(DocsOf(PathOf(i))) = 1
        /\ \A j \in 1..Len(documents) : documents[j].metadata = ExtraInfo

(* C6 (amended): exactly one Document per regular file of D whose parse    *)
(* succeeded, in listing order, each carrying the caller's metadata; every *)
(* regular file without a Document is reported as a per-file error, so the *)
(* counts match exactly when no parse failed; subdirectories yield none.   *)
C6_OneDocumentPerParsedRegularFile ==
    DocumentsAssigned =>
        /\ \A i \in 1..Len(dataDir) :
              Cardinality(DocsOf(PathOf(i))) =
                  IF i \in RegularFiles /\ PathOf(i) \notin parseErrors
                  THEN 1 ELSE 0
        /\ Len(documents) + Cardinality(parseErrors) = Cardinality(RegularFiles)
        /\ \A j \in 1..Len(documents) :
              /\ documents[j].metadata = ExtraInfo
              /\ \E i \in RegularFiles : documents[j].id_ = PathOf(i)
        /\ \A j, k \in 1..Len(documents) :
              j < k => documents[j].id_[2] < documents[k].id_[2]

C6_Witness_AllFilesParsed ==
    /\ DocumentsAssigned
    /\ Cardinality(RegularFiles) >= 1
    /\ Len(dataDir) > Cardinality(RegularFiles)
    /\ Len(documents) = Cardinality(RegularFiles)

----------------------------------------------------------------------------
(* Properties of the query engine.                                         *)

ConfiguredTopK ==
    IF pipeline = "astra" THEN AstraSimilarityTopK ELSE DefaultSimilarityTopK

RankOrdered(source_nodes) ==
    \A a, b \in 1..Len(source_nodes) :
        a < b => source_nodes[a].score >= source_nodes[b].score

C10_QueriesOnlyReadTheIndex ==
    [][/\ call'.count <= 1
       /\ (pc = "query" /\ pc' = "query") =>
             /\ index' = index
             /\ engine' = engine
             /\ fs' = fs
       /\ pc' = "query" =>
             \A s \in 1..MaxQueries :
                 /\ slots'[s].stage = "retrieved" =>
                       slots'[s].source_nodes
                           = Retrieve(index', slots'[s].q, engine'.top_k)
                 /\ slots'[s].stage = "done" =>
                       slots'[s].response = Ask(index', engine', slots'[s].q)]_vars

C10_Witness_InterleavedQueries ==
    /\ pc = "query"
    /\ Len(index.nodes) >= 2
    /\ slots[1].stage = "retrieved" /\ slots[2].stage = "done"
    /\ slots[1].q # slots[2].q
    /\ slots[2].response.source_nodes # slots[1].source_nodes

----------------------------------------------------------------------------
(* Properties of the download step.                                        *)

(* C14: the download step writes the local file only when the status is    *)
(* 200: then the file holds the response body and "Download complete." is  *)
(* printed; for any other status the file is as it was (not created, not   *)
(* truncated) and the error message is printed instead.                    *)
C14_DownloadWritesOnlyOn200 ==
    [][(pc = "download" /\ pc' # "download") =>
          /\ dl'.file # dl.file => dl'.status = HTTP_OK
          /\ (dl'.status = HTTP_OK /\ pc' = "parse") =>
                /\ dl'.file = dl'.body
                /\ dl'.out = "Download complete."
          /\ (dl'.status # HTTP_OK /\ dl'.status # 0) =>
                /\ dl'.file = dl.file
                /\ dl'.out = "Error downloading the file."
                /\ dl'.out # "Download complete."
                /\ pc' = "parse"
          /\ dl'.status = 0 => dl' = dl /\ pc' = "failed"]_vars

C14_Witness_ErrorStatusLeavesFile ==
    /\ pipeline = "astra" /\ pc = "parse"
    /\ dl.status = 404
    /\ dl.file = "absent"
    /\ dl.body = "paper.pdf"
    /\ dl.out = "Error downloading the file."

----------------------------------------------------------------------------
(* Properties of the session as a whole.                                   *)

QueryIssued == \E s \in 1..MaxQueries : slots[s].stage # "idle"

(* C11: a persistence error is fatal for the session.  Every query issued  *)
(* follows a build or load of this session that returned, and is answered  *)
(* from the index it returned; once the build or load of a session has     *)
(* failed, the session has issued no query and issues none.                *)
C11_NoQueryWithoutIndex ==
    /\ QueryIssued =>
          /\ pc \in {"query", "failed"}
          /\ index.defined /\ engine.defined
          /\ pipeline = "legal" =>
                /\ call.count = 1 /\ call.returned
                /\ index = call.result
    /\ (pipeline = "legal" /\ call.count > 0 /\ ~call.returned) =>
          /\ pc = "failed"
          /\ ~engine.defined
          /\ ~QueryIssued
    /\ (pc = "failed" /\ err.at \in {"embed", "persist", "load"}) =>
          ~QueryIssued /\ ~engine.defined

C11_Witness_LoadFailedNoQuery ==
    /\ pipeline = "legal" /\ pc = "failed"
    /\ call.count = 1 /\ call.branch = "load" /\ ~call.returned
    /\ err.at = "load"
    /\ KeyConfigured(env.OPENAI_API_KEY)
    /\ ~QueryIssued

(* C12: the build-or-load cell writes only on the build branch and only    *)
(* under the persistence path; on the load branch it changes no file and   *)
(* invokes neither the index constructor nor the embedder.                 *)
C12_BuildOrLoadWritesOnlyPersistPath ==
    [][(pipeline = "legal" /\ pc = "index" /\ pc' # "index") =>
          /\ dataDir' = dataDir /\ dl' = dl
          /\ \A d \in PersistDirs :
                d # Normalize(CheckPath) => fs'[d] = fs[d]
          /\ fs' # fs => call'.branch = "build"
          /\ call'.branch = "load" =>
                /\ exists(fs, CheckPath)
                /\ fs' = fs
                /\ ~call'.constructed /\ ~call'.embedded
                /\ net'.openai = net.openai
          /\ call'.branch = "build" =>
                /\ ~exists(fs, CheckPath)
                /\ call'.constructed]_vars

C12_Witness_LoadedWithoutEmbedding ==
    /\ pipeline = "legal" /\ pc = "query"
    /\ call.count = 1 /\ call.branch = "load" /\ call.returned
    /\ documents # <<>>
    /\ ~net.openai
    /\ ~call.constructed /\ ~call.embedded

(* C13: get_data_files returns join(data_dir, f) for exactly the entries f *)
(* of the listing that are regular files, each once and in listing order;  *)
(* no subdirectory appears and no path below one; the result is empty when *)
(* the directory holds no regular file.                                    *)
FilesAssigned == pipeline = "legal" /\ pc \notin {"creds", "setup"}

C13_GetDataFilesListsRegularFiles ==
    FilesAssigned =>
        /\ \A i \in 1..Len(dataDir) :
              Cardinality({j \in 1..Len(files) : files[j] = PathOf(i)}) =
                  IF dataDir[i].kind = "file" THEN 1 ELSE 0
        /\ \A j \in 1..Len(files) :
              /\ Len(files[j]) = 2
              /\ files[j][1] = DATA_DIR
              /\ \E i \in RegularFiles : files[j] = PathOf(i)
        /\ \A j, k \in 1..Len(files) :
              j < k =>
                 \E a, b \in 1..Len(dataDir) :
                    a < b /\ files[j] = PathOf(a) /\ files[k] = PathOf(b)
        /\ RegularFiles = {} => files = <<>>

C13_Witness_DirectorySkipped ==
    /\ FilesAssigned
    /\ Len(dataDir) = 2
    /\ dataDir[1].kind = "dir" /\ dataDir[2].kind = "file"
    /\ files = <<join(DATA_DIR, dataDir[2].name)>>

====
